---- MODULE Spec2Model ----
(***************************************************************************)
(* Course enrollment over campus shards (Elisszta/ddbs_course).            *)
(*                                                                         *)
(* The model follows src/app/routers/db_router.py (the shard-level         *)
(* handlers), src/app/routers/course_router.py (the caller-facing          *)
(* handlers), src/app/utils/classify_helper.py, settings.py, remote_call.py*)
(* and database.py.                                                        *)
(*                                                                         *)
(* Connections: Database.create_engine builds both engines with            *)
(* isolation_level="AUTOCOMMIT" (database.py:14-16; main.py:21 passes no   *)
(* isolation level).  Under that setting the driver commits every          *)
(* statement as it executes, conn.begin()/commit()/rollback() do nothing   *)
(* at the store, and the row locks a SELECT ... FOR UPDATE takes are       *)
(* released when that statement ends.  So one store statement is one       *)
(* atomic, immediately committed step, and every await between two         *)
(* statements is a point where another request's statement may run.        *)
(***************************************************************************)
EXTENDS Integers, FiniteSets, Sequences, TLC

VARIABLES
    course,     \* shard table course: id -> [capacity, num_selected]
    learn,      \* shard table learn: set of <<cid, sid>>
    teach,      \* shard table teach: set of <<tid, cid>>
    student,    \* directory table student: set of ids
    teacher,    \* directory table teacher: set of ids
    local,      \* the campus this process serves (settings.current_campus)
    req,        \* request slot -> the shard-level request it runs
    started,    \* number of requests started so far
    raced,      \* history: pairs of slots whose select requests race for one seat
    qry,        \* the caller-facing list-courses request
    mut,        \* the caller-facing request that changes a course or an enrollment
    fn,         \* a helper function applied to one input: the input and what it gave
    pool,       \* engine -> the staging tables on its pooled connection
    dbq         \* the shard-level query request (get_courses and its siblings)

vars == <<course, learn, teach, student, teacher, local, req, started, raced, qry,
          mut, fn, pool, dbq>>

----------------------------------------------------------------------------
(* Bounds of the model *)

\* slots of a campus's course-id band (100000 in the source: the divisor of
\* classify_helper.py:5 and the modulus of db_router.py:266)
BandWidth == 5
\* largest capacity a request or an initial course carries
MaxCap == 2
\* shard-level requests started in one behaviour
MaxReq == 2

----------------------------------------------------------------------------
(* Identity Classifier and settings *)

Campuses == {"A", "B", "C"}

\* Python's None where a string or a response is expected; an absent id is 0
None == "None"

\* the classifier rounding the quotient up
get_course_campus_rounded_up(course_id) ==
    LET course_campus == (course_id + BandWidth - 1) \div BandWidth IN
    IF course_campus = 10 THEN "A"
    ELSE IF course_campus = 11 THEN "B"
    ELSE "C"

\* classify_helper.py:4-10
get_course_campus(course_id) ==
    LET course_campus == course_id \div BandWidth IN
    IF course_campus = 10 THEN "A"
    ELSE IF course_campus = 11 THEN "B"
    ELSE "C"

\* settings.py:44-49, by the campus whose web url is left empty
current_min_cid(campus) ==
    IF campus = "A" THEN 10 * BandWidth
    ELSE IF campus = "B" THEN 11 * BandWidth
    ELSE 12 * BandWidth

\* the ids of a campus's band
Band(campus) == current_min_cid(campus) .. (current_min_cid(campus) + BandWidth - 1)

\* user ids from TeacherFloor on take delete_user's teacher branch (db_router.py:41)
TeacherFloor == 1200000000

\* the teacher test taking the floor itself for a student id
is_teacher_id_above_floor(user_id) == user_id > TeacherFloor

\* db_router.py:41, the test of delete_user's teacher branch
is_teacher_id(user_id) == user_id >= TeacherFloor

\* the divisor of the user-id classifier (classify_helper.py:14)
RoleWidth == 100000000

\* classify_helper.py:13-19
get_user_role(user_id) ==
    LET user_role == user_id \div RoleWidth IN
    IF user_role = 10 THEN "admin"
    ELSE IF user_role = 11 THEN "student"
    ELSE "teacher"

\* the users and courses the requests of the model name
StudentIds == {1100000000, 1100000001}
TeacherIds == {TeacherFloor}
UserIds == StudentIds \cup TeacherIds
CourseIds == {current_min_cid("A")}

Procs == {1, 2}

\* no response yet
NoResp == [status |-> 0, total |-> 0, result |-> {}]

\* The caller-facing list-courses request: the caller's role, the requested
\* campus set, the course filter (0: no numeric id), the handler's place, the
\* tasks it gathers (local_task, and remote: the campuses still to answer),
\* what they returned (local_rows; got: campus -> (code, rows), code 0 being the
\* None of a call without status), the response, and what the request has
\* touched: dir_used and shard_used (a statement ran against that store) and
\* calls (for each campus, the number of delegate calls that went to it).
NoCalls == [c \in Campuses |-> 0]
QryIdle == [pc |-> "idle", role |-> "admin", campus |-> {}, course |-> 0,
            local_task |-> FALSE, remote |-> {}, local_rows |-> {}, got |-> <<>>,
            resp |-> NoResp, dir_used |-> FALSE, shard_used |-> FALSE,
            calls |-> NoCalls]

\* no delegate call has returned
NoCall == [raised |-> None, code |-> 0, resp |-> None]

\* The caller-facing request on a course or an enrollment (course_router.py:
\* 92-184): the route (op), the caller's role, the query parameter stu_id (0:
\* absent), the course id of the path, the campus of a create request's body,
\* whether a selection window is open now, the handler's place, the response
\* (status and body), and what the request has touched: dir_used and
\* shard_used (a statement of the handler ran against that store) and calls,
\* the delegate calls made, each with its campus, method and stu_id parameter.
MutIdle == [pc |-> "idle", op |-> "none", role |-> "admin", stu_id |-> 0,
            course_id |-> 0, campus |-> "A", window |-> FALSE,
            status |-> 0, body |-> None, out |-> NoCall,
            dir_used |-> FALSE, shard_used |-> FALSE, calls |-> <<>>]

\* no function is being applied
FnIdle == [name |-> "none", done |-> FALSE, course_id |-> 0, campus |-> None,
           method |-> "GET", json |-> "none",
           net |-> [fail |-> TRUE, status |-> 0, body |-> None, parses |-> FALSE],
           out |-> NoCall]

\* The connection of each engine that the pool hands from one request to the
\* next (database.py:38-54), with the staging tables that exist on it: ms is
\* the directory (master-slave) engine, sh the shard engine.
NoTables == [ms |-> {}, sh |-> {}]

\* The shard-level query request (db_router.py:99-244): its route (courses:
\* get_courses, courses_student: get_courses_student, course_students:
\* get_course_students), its filters (course: none or an id; teacher: none, a
\* name that a directory teacher has, or a name that none has; only_not_full),
\* the course id of the path, the statement it is at, its locals (ids: the
\* teacher or student ids read from the shard; names: the teachers the
\* directory has a name for), the response, and what the request has met and
\* done: fresh (no staging table was on the connections it was handed) and
\* shard_stmts (the statements it executed on the shard connection).
DbqIdle == [pc |-> "idle", route |-> "none", course |-> "none", teacher |-> "none",
            only_not_full |-> FALSE, course_id |-> 0, ids |-> {}, names |-> {},
            status |-> 0, total |-> 0, result |-> {}, error |-> None,
            fresh |-> FALSE, shard_stmts |-> 0]

----------------------------------------------------------------------------
(* Requests of the shard-level handlers (db_router.py) *)

\* a slot that runs nothing
\* the result of a SELECT on course that found no row
NoRow == [found |-> FALSE, num_selected |-> 0, capacity |-> 0]

\* op, its parameters (uid, cid, cap: the capacity, tids: the teacher_ids; for
\* create_course cid is new_id once allocated), the statement it is at,
\* the handler's locals (row: the course row read; todo: the course ids of the
\* cascade's scan still to visit), the response, and two history fields of the
\* cascade's current pass: decd, the courses it decremented, and gone, the
\* courses whose enrollment row its DELETE removed
Idle == [op |-> "none", uid |-> 0, cid |-> 0, cap |-> 0, tids |-> {}, pc |-> "done",
         row |-> NoRow, todo |-> {}, decd |-> {}, gone |-> {}, result |-> None]

NewReq(op, uid, cid, cap, pc) ==
    [op |-> op, uid |-> uid, cid |-> cid, cap |-> cap, tids |-> {}, pc |-> pc,
     row |-> NoRow, todo |-> {}, decd |-> {}, gone |-> {}, result |-> None]

InFlight(p) == req[p].pc # "done"

\* the response: the request is over and its locals are dropped
Finish(p, r, result) ==
    [req EXCEPT ![p] = [r EXCEPT !.pc = "done", !.result = result,
                                 !.row = NoRow, !.todo = {}]]

Goto(p, r, pc) == [req EXCEPT ![p] = [r EXCEPT !.pc = pc]]

\* SELECT ... FROM course WHERE id = :id
course_row(id) ==
    IF id \in DOMAIN course
    THEN [found |-> TRUE, num_selected |-> course[id].num_selected,
          capacity |-> course[id].capacity]
    ELSE NoRow

\* UPDATE course SET num_selected = :num WHERE id = :id
set_num_selected(id, num) ==
    IF id \in DOMAIN course THEN [course EXCEPT ![id].num_selected = num] ELSE course

\* the capacity test with > for >=
is_full_off_by_one(num_selected, capacity) == num_selected > capacity

\* db_router.py:74, the capacity test of select_course
is_full(num_selected, capacity) == num_selected >= capacity

\* db_router.py:334, the capacity test of update_course
below_selected(capacity, num_selected) == capacity < num_selected

\* db_router.py:53, the floor of the cascade's decrement
may_decrement(row) == row.found /\ row.num_selected > 0

\* the cascade returning after its first pass
du_stop_once(rowcount) == TRUE

\* db_router.py:55, the cascade returns once its DELETE removed no row
du_stop(rowcount) == rowcount = 0

\* the pairs of slots that start a race for the last seat when slot p starts
\* select_course(uid, cid): slot q runs select_course for another existing
\* student on the same course, has not yet written, and the course has
\* capacity 1 and num_selected 0
RacePairs(p, uid, cid) ==
    {{p, q} : q \in {q \in Procs \ {p} :
        /\ req[q].op = "select" /\ req[q].cid = cid /\ req[q].uid # uid
        /\ req[q].pc \in {"sel_student", "sel_lock"}
        /\ uid \in student /\ req[q].uid \in student
        /\ cid \in DOMAIN course
        /\ course[cid].capacity = 1 /\ course[cid].num_selected = 0}}

\* a request arrives and takes the first slot that runs nothing
Begin(p, r, pairs) ==
    /\ ~InFlight(p)
    /\ \A q \in Procs : q < p => InFlight(q)
    /\ started < MaxReq
    /\ started' = started + 1
    /\ req' = [req EXCEPT ![p] = r]
    /\ raced' = {pr \in raced : p \notin pr} \cup pairs

StoreUnchanged == UNCHANGED <<course, learn, teach, student, teacher, local>>

StartSelect(p) ==
    \E uid \in StudentIds, cid \in CourseIds :
        /\ Begin(p, NewReq("select", uid, cid, 0, "sel_student"), RacePairs(p, uid, cid))
        /\ StoreUnchanged /\ UNCHANGED <<qry, mut, fn, pool, dbq>>

StartDeselect(p) ==
    \E uid \in StudentIds, cid \in CourseIds :
        /\ Begin(p, NewReq("deselect", uid, cid, 0, "des_student"), {})
        /\ StoreUnchanged /\ UNCHANGED <<qry, mut, fn, pool, dbq>>

StartUpdate(p) ==
    \E cid \in CourseIds, cap \in 1..MaxCap :
        /\ Begin(p, NewReq("update", 0, cid, cap, "upd_lock"), {})
        /\ StoreUnchanged /\ UNCHANGED <<qry, mut, fn, pool, dbq>>

StartDeleteUser(p) ==
    \E uid \in UserIds :
        /\ Begin(p, NewReq("delete_user", uid, 0, 0, "du_branch"), {})
        /\ StoreUnchanged /\ UNCHANGED <<qry, mut, fn, pool, dbq>>

Rest == UNCHANGED <<student, teacher, local, started, raced, qry, mut, fn, pool, dbq>>

(* select_course, db_router.py:59-77 *)

\* line 69-70: SELECT 1 FROM student WHERE id = :id
SelStudent(p) ==
    LET r == req[p] IN
    /\ r.pc = "sel_student"
    /\ req' = IF r.uid \in student THEN Goto(p, r, "sel_lock")
              ELSE Finish(p, r, "err_student_not_exist")
    /\ UNCHANGED <<course, learn, teach>> /\ Rest

\* line 71-75: SELECT num_selected, capacity ... FOR UPDATE, then the two tests
SelLock(p) ==
    LET r == req[p]
        row == course_row(r.cid) IN
    /\ r.pc = "sel_lock"
    /\ req' = IF ~row.found THEN Finish(p, r, "err_course_not_exist")
              ELSE IF is_full(row.num_selected, row.capacity)
                   THEN Finish(p, [r EXCEPT !.row = row], "err_course_cap_conflict")
              ELSE Goto(p, [r EXCEPT !.row = row], "sel_update")
    /\ UNCHANGED <<course, learn, teach>> /\ Rest

\* line 76: UPDATE course SET num_selected = row[0] + 1
SelUpdate(p) ==
    LET r == req[p] IN
    /\ r.pc = "sel_update"
    /\ course' = set_num_selected(r.cid, r.row.num_selected + 1)
    /\ req' = Goto(p, r, "sel_insert")
    /\ UNCHANGED <<learn, teach>> /\ Rest

\* line 77: INSERT INTO learn(cid, sid); a second row for the same pair
\* violates the relation's key and raises out of the handler
SelInsert(p) ==
    LET r == req[p] IN
    /\ r.pc = "sel_insert"
    /\ IF <<r.cid, r.uid>> \in learn
       THEN /\ req' = Finish(p, r, "IntegrityError")
            /\ UNCHANGED learn
       ELSE /\ learn' = learn \cup {<<r.cid, r.uid>>}
            /\ req' = Finish(p, r, "ok")
    /\ UNCHANGED <<course, teach>> /\ Rest

(* deselect_course, db_router.py:80-96 *)

\* line 90-91
DesStudent(p) ==
    LET r == req[p] IN
    /\ r.pc = "des_student"
    /\ req' = IF r.uid \in student THEN Goto(p, r, "des_lock")
              ELSE Finish(p, r, "err_student_not_exist")
    /\ UNCHANGED <<course, learn, teach>> /\ Rest

\* line 92-94: SELECT num_selected ... FOR UPDATE
DesLock(p) ==
    LET r == req[p]
        row == course_row(r.cid) IN
    /\ r.pc = "des_lock"
    /\ req' = IF ~row.found THEN Finish(p, r, "err_course_not_exist")
              ELSE Goto(p, [r EXCEPT !.row = row], "des_update")
    /\ UNCHANGED <<course, learn, teach>> /\ Rest

\* line 95: UPDATE course SET num_selected = num_selected - 1, whatever it was
DesUpdate(p) ==
    LET r == req[p] IN
    /\ r.pc = "des_update"
    /\ course' = set_num_selected(r.cid, r.row.num_selected - 1)
    /\ req' = Goto(p, r, "des_delete")
    /\ UNCHANGED <<learn, teach>> /\ Rest

\* line 96: DELETE FROM learn WHERE cid = :cid AND sid = :sid
DesDelete(p) ==
    LET r == req[p] IN
    /\ r.pc = "des_delete"
    /\ learn' = learn \ {<<r.cid, r.uid>>}
    /\ req' = Finish(p, r, "ok")
    /\ UNCHANGED <<course, teach>> /\ Rest

(* update_course, db_router.py:322-338 *)

\* line 331-335: SELECT num_selected ... FOR UPDATE, then the two tests
UpdLock(p) ==
    LET r == req[p]
        row == course_row(r.cid) IN
    /\ r.pc = "upd_lock"
    /\ req' = IF ~row.found THEN Finish(p, r, "err_course_not_exist")
              ELSE IF below_selected(r.cap, row.num_selected)
                   THEN Finish(p, [r EXCEPT !.row = row], "err_course_cap_conflict")
              ELSE Goto(p, [r EXCEPT !.row = row], "upd_update")
    /\ UNCHANGED <<course, learn, teach>> /\ Rest

\* line 336: UPDATE course SET name = :name, capacity = :capacity
UpdUpdate(p) ==
    LET r == req[p] IN
    /\ r.pc = "upd_update"
    /\ course' = IF r.cid \in DOMAIN course
                 THEN [course EXCEPT ![r.cid].capacity = r.cap] ELSE course
    /\ req' = Goto(p, r, "upd_teach")
    /\ UNCHANGED <<learn, teach>> /\ Rest

\* line 337: DELETE FROM teach WHERE id = :id.  teach is written everywhere else
\* by its columns tid and cid; on a table without a column id the statement
\* raises out of the handler, on a table with one it removes the row whose own
\* id is the course id, which no teaching row of the course has.  Either way
\* no teaching row of the course is removed.
UpdTeachDelete(p) ==
    LET r == req[p] IN
    /\ r.pc = "upd_teach"
    /\ \E raises \in BOOLEAN :
          req' = IF raises THEN Finish(p, r, "OperationalError")
                 ELSE Goto(p, r, "upd_insert")
    /\ UNCHANGED <<course, learn, teach>> /\ Rest

\* line 338: INSERT INTO teach(tid, cid) for the request's teacher_ids
UpdTeachInsert(p) ==
    LET r == req[p]
        rows == {<<tid, r.cid>> : tid \in TeacherIds} IN
    /\ r.pc = "upd_insert"
    /\ IF rows \cap teach # {}
       THEN /\ req' = Finish(p, r, "IntegrityError")
            /\ UNCHANGED teach
       ELSE /\ teach' = teach \cup rows
            /\ req' = Finish(p, r, "ok")
    /\ UNCHANGED <<course, learn>> /\ Rest

(* delete_user, db_router.py:33-56 *)

\* line 41-45: the teacher branch, one DELETE FROM teach WHERE tid = :tid
DuTeacher(p) ==
    LET r == req[p] IN
    /\ r.pc = "du_branch"
    /\ is_teacher_id(r.uid)
    /\ teach' = {t \in teach : t[1] # r.uid}
    /\ req' = Finish(p, r, "ok")
    /\ UNCHANGED <<course, learn>> /\ Rest

\* line 50: SELECT cid FROM learn WHERE sid = :sid FOR UPDATE, at the head of
\* every pass of the loop
DuScan(p) ==
    LET r == req[p]
        course_ids == {l[1] : l \in {l \in learn : l[2] = r.uid}} IN
    /\ r.pc \in {"du_branch", "du_scan"}
    /\ ~is_teacher_id(r.uid)
    /\ req' = Goto(p, [r EXCEPT !.todo = course_ids, !.decd = {}, !.gone = {}],
                   IF course_ids = {} THEN "du_delete" ELSE "du_read")
    /\ UNCHANGED <<course, learn, teach>> /\ Rest

\* line 52-53: SELECT num_selected FROM course WHERE id = :id FOR UPDATE for
\* the next course id of the scan (the scan has no ORDER BY)
DuRead(p) ==
    LET r == req[p] IN
    /\ r.pc = "du_read"
    /\ \E course_id \in r.todo :
        LET row == course_row(course_id)
            left == r.todo \ {course_id} IN
        req' = IF may_decrement(row)
               THEN Goto(p, [r EXCEPT !.cid = course_id, !.row = row], "du_write")
               ELSE Goto(p, [r EXCEPT !.todo = left],
                         IF left = {} THEN "du_delete" ELSE "du_read")
    /\ UNCHANGED <<course, learn, teach>> /\ Rest

\* line 54: UPDATE course SET num_selected = num_selected - 1
DuWrite(p) ==
    LET r == req[p]
        left == r.todo \ {r.cid} IN
    /\ r.pc = "du_write"
    /\ course' = set_num_selected(r.cid, r.row.num_selected - 1)
    /\ req' = Goto(p, [r EXCEPT !.todo = left, !.decd = r.decd \cup {r.cid}],
                   IF left = {} THEN "du_delete" ELSE "du_read")
    /\ UNCHANGED <<learn, teach>> /\ Rest

\* line 55-56: DELETE FROM learn WHERE sid = :sid, and the loop's exit test
DuDelete(p) ==
    LET r == req[p]
        rows == {l \in learn : l[2] = r.uid} IN
    /\ r.pc = "du_delete"
    /\ learn' = learn \ rows
    /\ req' = IF du_stop(Cardinality(rows))
              THEN Finish(p, [r EXCEPT !.gone = {l[1] : l \in rows}], "ok")
              ELSE Goto(p, [r EXCEPT !.gone = {l[1] : l \in rows}], "du_scan")
    /\ UNCHANGED <<course, teach>> /\ Rest

----------------------------------------------------------------------------
(* The shard under concurrent requests *)

\* the enrollment rows of course id in a set of rows
Enrolled(rows, id) == {l \in rows : l[1] = id}

\* a shard as sequential requests leave it: the course present is of the
\* local band and taught by the one teacher, every counter equals the course's
\* enrollment rows and is within its capacity, every enrolled student is in the
\* directory
Init ==
    /\ \E present \in SUBSET CourseIds, known \in (SUBSET StudentIds) \ {{}} :
       \E caps \in [present -> 1..MaxCap], rows \in SUBSET (present \X known) :
          /\ \A id \in present : Cardinality(Enrolled(rows, id)) <= caps[id]
          /\ student = known
          /\ learn = rows
          /\ course = [id \in present |->
                          [capacity |-> caps[id],
                           num_selected |-> Cardinality(Enrolled(rows, id))]]
          /\ teach = {<<tid, cid>> : tid \in TeacherIds, cid \in present}
    /\ teacher = TeacherIds
    /\ local = "A"
    /\ req = [p \in Procs |-> Idle]
    /\ started = 0
    /\ raced = {}
    /\ qry = QryIdle
    /\ mut = MutIdle
    /\ pool = NoTables
    /\ dbq = DbqIdle
    /\ fn = FnIdle

Next ==
    \E p \in Procs :
        \/ StartSelect(p) \/ StartDeselect(p) \/ StartUpdate(p) \/ StartDeleteUser(p)
        \/ SelStudent(p) \/ SelLock(p) \/ SelUpdate(p) \/ SelInsert(p)
        \/ DesStudent(p) \/ DesLock(p) \/ DesUpdate(p) \/ DesDelete(p)
        \/ UpdLock(p) \/ UpdUpdate(p) \/ UpdTeachDelete(p) \/ UpdTeachInsert(p)
        \/ DuTeacher(p) \/ DuScan(p) \/ DuRead(p) \/ DuWrite(p) \/ DuDelete(p)

Spec == Init /\ [][Next]_vars

----------------------------------------------------------------------------
(* Course-id allocation and course creation, db_router.py:260-308 *)

\* a teacher id no directory row has
UnknownTeacher == TeacherFloor + 1

MinOf(S) == CHOOSE x \in S : \A y \in S : x <= y
MaxOf(S) == CHOOSE x \in S : \A y \in S : y <= x

\* SELECT id FROM course ORDER BY id
RECURSIVE OrderById(_)
OrderById(S) == IF S = {} THEN <<>> ELSE <<MinOf(S)>> \o OrderById(S \ {MinOf(S)})

\* the allocator never scanning for a gap
below_last_slot_always(max_id) == TRUE

\* the allocator scanning for a gap whatever the maximum is
below_last_slot_never(max_id) == FALSE

\* line 266: the maximum is not at the band's last slot
below_last_slot(max_id) == max_id % BandWidth < BandWidth - 1

\* the scan without its test of the first id
first_gap_no_floor(ids, min_id) ==
    LET breaks == {i \in 1..(Len(ids) - 1) : ids[i + 1] # ids[i] + 1} IN
    IF breaks = {} THEN 0 ELSE ids[MinOf(breaks)] + 1

\* the scan handing out the id after the last one when it finds no gap
first_gap_past_end(ids, min_id) ==
    IF ids[1] # min_id THEN min_id
    ELSE LET breaks == {i \in 1..(Len(ids) - 1) : ids[i + 1] # ids[i] + 1} IN
         IF breaks = {} THEN ids[Len(ids)] + 1 ELSE ids[MinOf(breaks)] + 1

\* line 270-275: the scan of the ordered ids; 0 is the None it returns
first_gap(ids, min_id) ==
    IF ids[1] # min_id THEN min_id
    ELSE LET breaks == {i \in 1..(Len(ids) - 1) : ids[i + 1] # ids[i] + 1} IN
         IF breaks = {} THEN 0 ELSE ids[MinOf(breaks)] + 1

StartCreate(p) ==
    \E cap \in 1..MaxCap, tids \in {TeacherIds, TeacherIds \cup {UnknownTeacher}} :
        /\ Begin(p, [NewReq("create", 0, 0, cap, "cr_teachers") EXCEPT !.tids = tids], {})
        /\ StoreUnchanged /\ UNCHANGED <<qry, mut, fn, pool, dbq>>

\* the teacher test passing as soon as one of the teachers exists
teacher_missing_all(teacher_ids) == teacher_ids \cap teacher = {}

\* line 288: the count of the directory rows with an id of teacher_ids differs
\* from the number of teacher_ids
teacher_missing(teacher_ids) ==
    Cardinality(teacher_ids \cap teacher) # Cardinality(teacher_ids)

\* line 288-289: SELECT COUNT(*) FROM teacher WHERE id IN :ids
CrTeachers(p) ==
    LET r == req[p] IN
    /\ r.pc = "cr_teachers"
    /\ req' = IF teacher_missing(r.tids)
              THEN Finish(p, r, "err_teacher_not_exist")
              ELSE Goto(p, r, "cr_max")
    /\ UNCHANGED <<course, learn, teach>> /\ Rest

\* line 261-267: SELECT MAX(id) FROM course
CrMax(p) ==
    LET r == req[p]
        min_id == current_min_cid(local) IN
    /\ r.pc = "cr_max"
    /\ req' = IF DOMAIN course = {} THEN Goto(p, [r EXCEPT !.cid = min_id], "cr_insert")
              ELSE IF below_last_slot(MaxOf(DOMAIN course))
                   THEN Goto(p, [r EXCEPT !.cid = MaxOf(DOMAIN course) + 1], "cr_insert")
              ELSE Goto(p, r, "cr_scan")
    /\ UNCHANGED <<course, learn, teach>> /\ Rest

\* line 268-275 and 293-294: SELECT id FROM course ORDER BY id; ids[0] of an
\* empty result raises out of the handler
CrScan(p) ==
    LET r == req[p]
        ids == OrderById(DOMAIN course)
        new_id == first_gap(ids, current_min_cid(local)) IN
    /\ r.pc = "cr_scan"
    /\ req' = IF ids = <<>> THEN Finish(p, r, "IndexError")
              ELSE IF new_id = 0 THEN Finish(p, r, "err_course_id_full")
              ELSE Goto(p, [r EXCEPT !.cid = new_id], "cr_insert")
    /\ UNCHANGED <<course, learn, teach>> /\ Rest

\* the INSERT never failing on an id that a course already has
id_taken_never(new_id) == FALSE

\* line 296-305: the INSERT violates the key of course when a row has the id
id_taken(new_id) == new_id \in DOMAIN course

\* line 296-305: INSERT INTO course with num_selected 0
CrInsert(p) ==
    LET r == req[p] IN
    /\ r.pc = "cr_insert"
    /\ IF id_taken(r.cid)
       THEN /\ req' = Finish(p, r, "err_course_id_conflict")
            /\ UNCHANGED course
       ELSE /\ course' = [id \in DOMAIN course \cup {r.cid} |->
                            IF id = r.cid THEN [capacity |-> r.cap, num_selected |-> 0]
                            ELSE course[id]]
            /\ req' = Goto(p, r, "cr_teach")
    /\ UNCHANGED <<learn, teach>> /\ Rest

\* line 307-308: INSERT INTO teach(tid, cid) for the request's teacher_ids
CrTeach(p) ==
    LET r == req[p]
        rows == {<<tid, r.cid>> : tid \in r.tids} IN
    /\ r.pc = "cr_teach"
    /\ IF rows \cap teach # {}
       THEN /\ req' = Finish(p, r, "IntegrityError")
            /\ UNCHANGED teach
       ELSE /\ teach' = teach \cup rows
            /\ req' = Finish(p, r, "created")
    /\ UNCHANGED <<course, learn>> /\ Rest

\* a shard of any campus holding any courses of its band, nobody enrolled
AllocInit ==
    /\ local \in Campuses
    /\ \E present \in SUBSET Band(local) :
          /\ course = [id \in present |-> [capacity |-> 1, num_selected |-> 0]]
          /\ teach = {<<tid, cid>> : tid \in TeacherIds, cid \in present}
    /\ learn = {}
    /\ student = StudentIds
    /\ teacher = TeacherIds
    /\ req = [p \in Procs |-> Idle]
    /\ started = 0
    /\ raced = {}
    /\ qry = QryIdle
    /\ mut = MutIdle
    /\ pool = NoTables
    /\ dbq = DbqIdle
    /\ fn = FnIdle

AllocNext ==
    \E p \in Procs :
        \/ StartCreate(p)
        \/ CrTeachers(p) \/ CrMax(p) \/ CrScan(p) \/ CrInsert(p) \/ CrTeach(p)

AllocSpec == AllocInit /\ [][AllocNext]_vars

----------------------------------------------------------------------------
(* Federated list-courses, course_router.py:39-84, and remote_call.py *)

Roles == {"admin", "student", "teacher"}

\* the numeric course ids a request may name: the floor of each campus's band
QueryIds == {current_min_cid(c) : c \in Campuses}

\* db_router.query_courses, which course_router.py:52,55 calls: the rows of the
\* local shard that match the filter, one per course
LocalRows(course_filter) ==
    IF course_filter = 0 THEN DOMAIN course ELSE DOMAIN course \cap {course_filter}

\* remote_call.py:26-35: the outcomes of a delegate call to campus c: no status
\* (timeout, transport failure, malformed body), a non-2xx status, or 200 with
\* the peer's rows
RemoteOutcomes(c) ==
    {[code |-> 0, rows |-> {}], [code |-> 500, rows |-> {}]}
        \cup {[code |-> 200, rows |-> rows] : rows \in SUBSET {current_min_cid(c)}}

\* course_router.py:66 and 82
is_success(code) == code # 0 /\ 200 <= code /\ code < 300

\* the test of line 60 left out
outside_requested_never(course_campus, campus) == FALSE

\* course_router.py:60
outside_requested(course_campus, campus) == course_campus \notin campus

\* every numeric course id taken for a local one
is_local_always(course_campus, current_campus) == TRUE

\* course_router.py:62
is_local(course_campus, current_campus) == course_campus = current_campus

QRest ==
    UNCHANGED <<course, learn, teach, student, teacher, local, req, raced, mut, fn,
                pool, dbq>>

Respond(q, status, rows) ==
    [q EXCEPT !.pc = "done",
              !.resp = [status |-> status, total |-> Cardinality(rows), result |-> rows]]

\* a request arrives (line 40-56): the local query is built, not yet awaited
StartQuery ==
    /\ qry.pc \in {"idle", "done"}
    /\ started < MaxReq
    /\ started' = started + 1
    /\ \E role \in Roles, campus \in (SUBSET Campuses) \ {{}}, course_filter \in {0} \cup QueryIds :
          qry' = [QryIdle EXCEPT !.pc = "route", !.role = role, !.campus = campus,
                                 !.course = course_filter]
    /\ QRest

\* line 57-61: a numeric course id whose campus is not requested
QOutside ==
    /\ qry.pc = "route" /\ qry.course # 0
    /\ outside_requested(get_course_campus(qry.course), qry.campus)
    /\ qry' = Respond(qry, 200, {})
    /\ UNCHANGED started /\ QRest

\* line 62-63: a numeric course id of the local campus: await the local query
QLocalOnly ==
    /\ qry.pc = "route" /\ qry.course # 0
    /\ ~outside_requested(get_course_campus(qry.course), qry.campus)
    /\ is_local(get_course_campus(qry.course), local)
    /\ qry' = Respond([qry EXCEPT !.dir_used = TRUE, !.shard_used = TRUE],
                      200, LocalRows(qry.course))
    /\ UNCHANGED started /\ QRest

\* line 65-68: a numeric course id of a peer: one delegate call to its campus
QRemoteOnly ==
    /\ qry.pc = "route" /\ qry.course # 0
    /\ ~outside_requested(get_course_campus(qry.course), qry.campus)
    /\ ~is_local(get_course_campus(qry.course), local)
    /\ \E out \in RemoteOutcomes(get_course_campus(qry.course)) :
          qry' = Respond([qry EXCEPT !.calls[get_course_campus(qry.course)] = @ + 1],
                         200, IF is_success(out.code) THEN out.rows ELSE {})
    /\ UNCHANGED started /\ QRest

\* line 70-75: the tasks of the fan-out; the requested set loses the local campus
QFanOut ==
    /\ qry.pc = "route" /\ qry.course = 0
    /\ qry' = [qry EXCEPT !.pc = "gather",
                          !.local_task = (local \in qry.campus),
                          !.remote = qry.campus \ {local},
                          !.calls = [c \in Campuses |->
                                       IF c \in qry.campus \ {local}
                                       THEN qry.calls[c] + 1 ELSE qry.calls[c]]]
    /\ UNCHANGED started /\ QRest

\* line 77, the local task of the gather completes
QGatherLocal ==
    /\ qry.pc = "gather" /\ qry.local_task
    /\ qry' = [qry EXCEPT !.local_task = FALSE, !.local_rows = LocalRows(qry.course),
                          !.dir_used = TRUE, !.shard_used = TRUE]
    /\ UNCHANGED started /\ QRest

\* line 77, a delegate call of the gather completes
QGatherRemote ==
    /\ qry.pc = "gather"
    /\ \E c \in qry.remote : \E out \in RemoteOutcomes(c) :
          qry' = [qry EXCEPT !.remote = qry.remote \ {c},
                             !.got = [d \in DOMAIN qry.got \cup {c} |->
                                        IF d = c THEN out ELSE qry.got[d]]]
    /\ UNCHANGED started /\ QRest

\* line 77-84, once every task has completed: the local result is a
\* CourseQueryResp and its rows are taken; a delegate's result is (code, resp)
\* with resp the parsed JSON body, a dict, and line 83 reads resp.result of it,
\* which raises AttributeError out of the handler
QMerge ==
    /\ qry.pc = "gather" /\ ~qry.local_task /\ qry.remote = {}
    /\ qry' = IF \E c \in DOMAIN qry.got : is_success(qry.got[c].code)
              THEN Respond(qry, 500, {})
              ELSE Respond(qry, 200, qry.local_rows)
    /\ UNCHANGED started /\ QRest

\* a campus serving list-courses requests over a shard that does not change
QueryInit ==
    /\ local \in Campuses
    /\ \E present \in SUBSET {current_min_cid(local), current_min_cid(local) + 1} :
          /\ course = [id \in present |-> [capacity |-> 1, num_selected |-> 0]]
          /\ teach = {<<tid, cid>> : tid \in TeacherIds, cid \in present}
    /\ learn = {}
    /\ student = StudentIds
    /\ teacher = TeacherIds
    /\ req = [p \in Procs |-> Idle]
    /\ started = 0
    /\ raced = {}
    /\ qry = QryIdle
    /\ mut = MutIdle
    /\ pool = NoTables
    /\ dbq = DbqIdle
    /\ fn = FnIdle

QueryNext ==
    \/ StartQuery
    \/ QOutside \/ QLocalOnly \/ QRemoteOnly
    \/ QFanOut \/ QGatherLocal \/ QGatherRemote \/ QMerge

QuerySpec == QueryInit /\ [][QueryNext]_vars

\* a step of the handler in slot p
Step(p) ==
    \/ SelStudent(p) \/ SelLock(p) \/ SelUpdate(p) \/ SelInsert(p)
    \/ DesStudent(p) \/ DesLock(p) \/ DesUpdate(p) \/ DesDelete(p)
    \/ UpdLock(p) \/ UpdUpdate(p) \/ UpdTeachDelete(p) \/ UpdTeachInsert(p)
    \/ DuTeacher(p) \/ DuScan(p) \/ DuRead(p) \/ DuWrite(p) \/ DuDelete(p)

\* The event loop resumes every suspended handler, and no statement waits on
\* another request (no lock outlives its statement), so a request that has
\* started keeps taking steps.  Arrivals are not forced.
FairSpec == Spec /\ \A p \in Procs : WF_vars(Step(p))

\* no request is between its first and its last statement
Quiescent == \A p \in Procs : ~InFlight(p)

----------------------------------------------------------------------------
(* remote_call, remote_call.py:8-35 *)

\* line 14-23: the methods remote_call has a session function for
Methods == {"GET", "POST", "PUT", "DELETE", "PATCH"}

\* the statuses and the parsed bodies a campus answers with
Statuses == {200, 201, 204, 403, 404, 409, 500}
Bodies == {"course_id", "detail"}

\* What the json argument is: None, a value json.dumps serialises, or a
\* pydantic model (course_router.py:95 and 121 pass p itself), which
\* json.dumps rejects with TypeError when the request is built.
JsonKinds == {"none", "dict", "model"}

\* What becomes of a request that is sent: a transport-level failure (timeout,
\* refused connection, DNS), an answer whose body resp.json() cannot parse, or
\* an answer with a status and a parsed body.
NetOutcomes ==
    {[fail |-> TRUE, status |-> 0, body |-> None, parses |-> FALSE]}
    \cup {[fail |-> FALSE, status |-> s, body |-> None, parses |-> FALSE] : s \in Statuses}
    \cup {[fail |-> FALSE, status |-> s, body |-> b, parses |-> TRUE] :
                s \in Statuses, b \in Bodies}

\* remote_call letting the exceptions of the request through
remote_call_uncaught(method, json, net) ==
    IF method \notin Methods
    THEN [raised |-> "NotImplementedError", code |-> 0, resp |-> None]
    ELSE IF json = "model" \/ net.fail \/ ~net.parses
         THEN [raised |-> "Exception", code |-> 0, resp |-> None]
    ELSE [raised |-> None, code |-> net.status, resp |-> net.body]

\* line 14-35: a method without a session function raises NotImplementedError
\* (line 25, outside the try); every exception of building and sending the
\* request and of reading the body is caught and gives (None, None), code 0
\* here; otherwise (resp.status, await resp.json())
remote_call(method, json, net) ==
    IF method \notin Methods
    THEN [raised |-> "NotImplementedError", code |-> 0, resp |-> None]
    ELSE IF json = "model" \/ net.fail \/ ~net.parses
         THEN NoCall
    ELSE [raised |-> None, code |-> net.status, resp |-> net.body]

----------------------------------------------------------------------------
(* The caller-facing routes that change a course or an enrollment,
   course_router.py:87-184 *)

AdminOps == {"create", "delete", "update"}
EnrollOps == {"select", "deselect"}

\* the requests a caller sends: create names a campus in its body, delete and
\* update a course id in the path, select and deselect a course id, possibly a
\* stu_id, and arrive with or without a selection window open
MutInputs ==
    {[MutIdle EXCEPT !.op = "create", !.role = role, !.campus = c] :
        role \in Roles, c \in Campuses}
    \cup {[MutIdle EXCEPT !.op = op, !.role = role, !.course_id = id] :
        op \in {"delete", "update"}, role \in Roles, id \in QueryIds}
    \cup {[MutIdle EXCEPT !.op = op, !.role = role, !.course_id = id,
                          !.stu_id = sid, !.window = w] :
        op \in EnrollOps, role \in Roles, id \in QueryIds,
        sid \in {0, 1100000000}, w \in BOOLEAN}

RtStores == UNCHANGED <<course, learn, teach, student, teacher, local>>
RtRest == UNCHANGED <<req, raced, qry, fn, pool, dbq>>

\* the response of the handler
Answer(m, status, body) == [m EXCEPT !.pc = "done", !.status = status, !.body = body]

\* line 95-98, 106-109, 121-124: one remote_call, then 502 when it gave no
\* status and otherwise a JSONResponse with its status and body
Delegate(m, c, method, json, net) ==
    LET out == remote_call(method, json, net)
        called == [m EXCEPT !.out = out,
                            !.calls = Append(m.calls, [campus |-> c, method |-> method,
                                                       stu_id |-> 0])] IN
    IF out.code = 0 THEN Answer(called, 502, "err_bad_gateway")
    ELSE Answer(called, out.code, out.resp)

\* the status a response of db_router.create_course is sent with
create_status(result) ==
    IF result = "created" THEN 201
    ELSE IF result = "err_teacher_not_exist" THEN 404
    ELSE IF result \in {"err_course_id_full", "err_course_id_conflict"} THEN 409
    ELSE 500

\* a request arrives and its dependencies are about to be resolved
RtStart ==
    /\ mut.pc \in {"idle", "done"}
    /\ started < MaxReq
    /\ started' = started + 1
    /\ \E m \in MutInputs : mut' = [m EXCEPT !.pc = "auth"]
    /\ RtStores /\ RtRest

\* auth.py:49-57, the AdminDep of create, delete and update
RtForbidden ==
    /\ mut.pc = "auth" /\ mut.op \in AdminOps /\ mut.role # "admin"
    /\ mut' = Answer(mut, 403, "err_no_permission")
    /\ UNCHANGED started /\ RtStores /\ RtRest

\* line 93-94: the course is for the local campus, db_router.create_course runs
RtCreateLocal ==
    /\ mut.pc = "auth" /\ mut.op = "create" /\ mut.role = "admin"
    /\ mut.campus = local
    /\ \E tids \in {TeacherIds, TeacherIds \cup {UnknownTeacher}} :
          req' = [req EXCEPT ![1] =
                    [NewReq("create", 0, 0, 1, "cr_teachers") EXCEPT !.tids = tids]]
    /\ mut' = [mut EXCEPT !.pc = "await_local", !.dir_used = TRUE]
    /\ UNCHANGED <<started, raced, qry, fn, pool, dbq>> /\ RtStores

\* line 94: db_router.create_course has returned or raised
RtCreateReturn ==
    /\ mut.pc = "await_local" /\ req[1].pc = "done"
    /\ mut' = Answer([mut EXCEPT !.shard_used = req[1].result # "err_teacher_not_exist"],
                     create_status(req[1].result),
                     IF req[1].result = "created" THEN "course_id" ELSE req[1].result)
    /\ UNCHANGED started /\ RtStores /\ RtRest

\* line 95-98: the course is for another campus; the body passed as json is
\* the pydantic model p
RtCreateRemote ==
    /\ mut.pc = "auth" /\ mut.op = "create" /\ mut.role = "admin"
    /\ mut.campus # local
    /\ \E net \in NetOutcomes : mut' = Delegate(mut, mut.campus, "POST", "model", net)
    /\ UNCHANGED started /\ RtStores /\ RtRest

\* line 103-105 and db_router.py:319: DELETE FROM course WHERE id = :id on the
\* local shard.  The schema is not part of the source: the teaching and
\* enrollment rows of the course stay, or go with it (a cascading foreign
\* key), or make the statement fail (a restricting one).
RtDeleteLocal ==
    /\ mut.pc = "auth" /\ mut.op = "delete" /\ mut.role = "admin"
    /\ get_course_campus(mut.course_id) = local
    /\ \E fk \in {"none", "cascade", "restrict"} :
        LET id == mut.course_id
            used == (\E t \in teach : t[2] = id) \/ (\E l \in learn : l[1] = id)
            m == [mut EXCEPT !.shard_used = TRUE] IN
        IF fk = "restrict" /\ used
        THEN /\ mut' = Answer(m, 500, "IntegrityError")
             /\ UNCHANGED <<course, learn, teach>>
        ELSE /\ mut' = Answer(m, 204, None)
             /\ course' = [c \in DOMAIN course \ {id} |-> course[c]]
             /\ teach' = IF fk = "cascade" THEN {t \in teach : t[2] # id} ELSE teach
             /\ learn' = IF fk = "cascade" THEN {l \in learn : l[1] # id} ELSE learn
    /\ UNCHANGED <<student, teacher, local, started>> /\ RtRest

\* line 106-109
RtDeleteRemote ==
    /\ mut.pc = "auth" /\ mut.op = "delete" /\ mut.role = "admin"
    /\ get_course_campus(mut.course_id) # local
    /\ \E net \in NetOutcomes :
          mut' = Delegate(mut, get_course_campus(mut.course_id), "DELETE", "none", net)
    /\ UNCHANGED started /\ RtStores /\ RtRest

\* line 118-120: db_router.update_course(shard_conn, course_id, p) is called
\* with four arguments, which raises TypeError before it runs a statement
RtUpdateLocal ==
    /\ mut.pc = "auth" /\ mut.op = "update" /\ mut.role = "admin"
    /\ get_course_campus(mut.course_id) = local
    /\ mut' = Answer(mut, 500, "TypeError")
    /\ UNCHANGED started /\ RtStores /\ RtRest

\* line 121-124: as create, the json argument is the pydantic model p
RtUpdateRemote ==
    /\ mut.pc = "auth" /\ mut.op = "update" /\ mut.role = "admin"
    /\ get_course_campus(mut.course_id) # local
    /\ \E net \in NetOutcomes :
          mut' = Delegate(mut, get_course_campus(mut.course_id), "PUT", "model", net)
    /\ UNCHANGED started /\ RtStores /\ RtRest

\* line 175-176: the handler returns select_or_deselect_course(...) without
\* awaiting it.  The call only creates a coroutine object, so no line of
\* select_or_deselect_course (141-167) runs; the framework cannot serialise
\* the coroutine object it is handed as the response, and the caller gets 500.
RtSelectCourse ==
    /\ mut.pc = "auth" /\ mut.op = "select"
    /\ mut' = Answer(mut, 500, "ValueError")
    /\ UNCHANGED started /\ RtStores /\ RtRest

\* line 183-184: the same for deselect
RtDeselectCourse ==
    /\ mut.pc = "auth" /\ mut.op = "deselect"
    /\ mut' = Answer(mut, 500, "ValueError")
    /\ UNCHANGED started /\ RtStores /\ RtRest

\* a campus with some courses of its band, nobody enrolled, serving one
\* caller-facing request after another
RouteInit ==
    /\ local \in Campuses
    /\ \E present \in SUBSET {current_min_cid(local), current_min_cid(local) + BandWidth - 1} :
          /\ course = [id \in present |-> [capacity |-> 1, num_selected |-> 0]]
          /\ teach = {<<tid, cid>> : tid \in TeacherIds, cid \in present}
    /\ learn = {}
    /\ student = StudentIds
    /\ teacher = TeacherIds
    /\ req = [p \in Procs |-> Idle]
    /\ started = 0
    /\ raced = {}
    /\ qry = QryIdle
    /\ mut = MutIdle
    /\ pool = NoTables
    /\ dbq = DbqIdle
    /\ fn = FnIdle

RouteNext ==
    \/ RtStart \/ RtForbidden
    \/ RtCreateLocal \/ RtCreateReturn \/ RtCreateRemote
    \/ CrTeachers(1) \/ CrMax(1) \/ CrScan(1) \/ CrInsert(1) \/ CrTeach(1)
    \/ RtDeleteLocal \/ RtDeleteRemote
    \/ RtUpdateLocal \/ RtUpdateRemote
    \/ RtSelectCourse \/ RtDeselectCourse

RouteSpec == RouteInit /\ [][RouteNext]_vars

----------------------------------------------------------------------------
(* The helper functions applied to single inputs *)

\* the ids the classifier is applied to: the three bands, the ids below them
\* and one band's width above them
ClassifiedIds == 0 .. (14 * BandWidth - 1)

\* the inputs of remote_call: the five methods and one it has no function for
CalledMethods == Methods \cup {"HEAD"}

FnInputs ==
    {[FnIdle EXCEPT !.name = "get_course_campus", !.course_id = id] :
        id \in ClassifiedIds}
    \cup {[FnIdle EXCEPT !.name = "remote_call", !.method = m, !.json = j, !.net = n] :
        m \in CalledMethods, j \in JsonKinds, n \in NetOutcomes}

FnRest ==
    UNCHANGED <<course, learn, teach, student, teacher, local, req, started, raced,
                qry, mut, pool, dbq>>

\* classify_helper.py:4-10 applied to fn.course_id
ApplyGetCourseCampus ==
    /\ fn.name = "get_course_campus" /\ ~fn.done
    /\ fn' = [fn EXCEPT !.done = TRUE, !.campus = get_course_campus(fn.course_id)]
    /\ FnRest

\* remote_call.py:8-35 applied to fn.method, fn.json and what the network does
ApplyRemoteCall ==
    /\ fn.name = "remote_call" /\ ~fn.done
    /\ fn' = [fn EXCEPT !.done = TRUE, !.out = remote_call(fn.method, fn.json, fn.net)]
    /\ FnRest

FnInit ==
    /\ fn \in FnInputs
    /\ local \in Campuses
    /\ course = [id \in {} |-> [capacity |-> 1, num_selected |-> 0]]
    /\ learn = {}
    /\ teach = {}
    /\ student = StudentIds
    /\ teacher = TeacherIds
    /\ req = [p \in Procs |-> Idle]
    /\ started = 0
    /\ raced = {}
    /\ qry = QryIdle
    /\ mut = MutIdle
    /\ pool = NoTables
    /\ dbq = DbqIdle

FnNext == ApplyGetCourseCampus \/ ApplyRemoteCall

FnSpec == FnInit /\ [][FnNext]_vars

----------------------------------------------------------------------------
(* The shard-level queries, db_router.py:99-244, with delete_course and the
   teacher branch of delete_user *)

\* the course ids the requests of this part name: the floor and the last slot
\* of campus A's band
ListIds == {current_min_cid("A"), current_min_cid("A") + BandWidth - 1}

\* the requests: get_courses and get_courses_student with their filters,
\* get_course_students with the course id of its path
DbqInputs ==
    {[DbqIdle EXCEPT !.route = route, !.course = c, !.teacher = t, !.only_not_full = f] :
        route \in {"courses", "courses_student"}, c \in {"none", "id"},
        t \in {"none", "name_known", "name_unknown"}, f \in BOOLEAN}
    \cup {[DbqIdle EXCEPT !.route = "course_students", !.course_id = id] : id \in ListIds}

\* line 173 (and 221, where the model's requests leave only_selected false)
unconstrained(q) == q.course = "none" /\ q.teacher = "none" /\ ~q.only_not_full

\* the request ends with an exception that leaves the handler
DbqFail(q, error) == [q EXCEPT !.pc = "done", !.status = 500, !.error = error]

\* the request ends with HTTPException 404
DbqNotFound(q, error) == [q EXCEPT !.pc = "done", !.status = 404, !.error = error]

\* the request returns its rows and their number (line 116, 192)
DbqAnswer(q, rows) ==
    [q EXCEPT !.pc = "done", !.status = 200, !.total = Cardinality(rows), !.result = rows]

\* one more statement executed on the shard connection
OnShard(q) == [q EXCEPT !.shard_stmts = @ + 1]

\* line 187-190: course JOIN teach JOIN tmp_tid_name GROUP BY c.id: one row
\* for every course with a teaching row whose teacher tmp_tid_name holds
joined_courses(names) ==
    {c \in DOMAIN course : \E t \in teach : t[2] = c /\ t[1] \in names}

DbqRest ==
    UNCHANGED <<course, learn, teach, student, teacher, local, req, raced, qry, mut, fn>>

\* A request arrives and its two connections are handed to it
\* (database.py:38-54: engine.connect() takes the pooled connection, and the
\* end of the async with gives it back as it is: no statement of the handlers
\* drops a staging table, and returning a connection to the pool does not end
\* its session at the store, so the connection-scoped tables stay on it).
StartDbq ==
    /\ dbq.pc \in {"idle", "done"}
    /\ started < MaxReq
    /\ started' = started + 1
    /\ \E q \in DbqInputs :
          dbq' = [q EXCEPT !.pc = IF q.route = "course_students" THEN "gs_course"
                                  ELSE "gc_tmp_tid",
                           !.fresh = (pool = NoTables)]
    /\ UNCHANGED pool /\ DbqRest

(* get_courses, line 152-192, and get_courses_student, line 196-244 *)

\* line 169 / 217: CREATE TEMPORARY TABLE tmp_tid on the directory connection;
\* it raises when the connection already has the table
GcTmpTid ==
    /\ dbq.pc = "gc_tmp_tid"
    /\ IF "tmp_tid" \in pool.ms
       THEN /\ dbq' = DbqFail(dbq, "OperationalError")
            /\ UNCHANGED pool
       ELSE /\ pool' = [pool EXCEPT !.ms = @ \cup {"tmp_tid"}]
            /\ dbq' = [dbq EXCEPT !.pc = "gc_tmp_tid_name"]
    /\ UNCHANGED started /\ DbqRest

\* line 170-178 / 218-226: CREATE TEMPORARY TABLE tmp_tid_name on the shard
\* connection, then the test of line 173.  With a filter, line 177 calls
\* build_course_filter_sql without awaiting it: the call only creates a
\* coroutine object, no line of build_course_filter_sql (119-148) runs, and
\* unpacking the coroutine object into three names raises TypeError.
GcTmpTidName ==
    /\ dbq.pc = "gc_tmp_tid_name"
    /\ IF "tmp_tid_name" \in pool.sh
       THEN /\ dbq' = DbqFail(OnShard(dbq), "OperationalError")
            /\ UNCHANGED pool
       ELSE /\ pool' = [pool EXCEPT !.sh = @ \cup {"tmp_tid_name"}]
            /\ dbq' = IF unconstrained(dbq)
                      THEN [OnShard(dbq) EXCEPT !.pc = "gc_teach"]
                      ELSE DbqFail(OnShard(dbq), "TypeError")
    /\ UNCHANGED started /\ DbqRest

\* line 174 / 222: SELECT DISTINCT tid FROM teach
GcTeach ==
    /\ dbq.pc = "gc_teach"
    /\ dbq' = [OnShard(dbq) EXCEPT !.pc = "gc_ins_tid", !.ids = {t[1] : t \in teach}]
    /\ UNCHANGED <<started, pool>> /\ DbqRest

\* line 184 / 232: INSERT INTO tmp_tid(tid) with one parameter set per teacher
\* id; with no teacher id the parameter list is empty, and the statement then
\* either inserts nothing or is rejected for its unbound :tid
GcInsTid ==
    /\ dbq.pc = "gc_ins_tid"
    /\ \E rejected \in BOOLEAN :
          dbq' = IF dbq.ids = {} /\ rejected THEN DbqFail(dbq, "StatementError")
                 ELSE [dbq EXCEPT !.pc = "gc_names"]
    /\ UNCHANGED <<started, pool>> /\ DbqRest

\* line 185 / 233: SELECT t.id, t.name FROM tmp_tid tmp JOIN teacher t
GcNames ==
    /\ dbq.pc = "gc_names"
    /\ dbq' = [dbq EXCEPT !.pc = "gc_ins_names", !.names = dbq.ids \cap teacher]
    /\ UNCHANGED <<started, pool>> /\ DbqRest

\* line 186 / 234: INSERT INTO tmp_tid_name on the shard connection, as line 184
GcInsNames ==
    /\ dbq.pc = "gc_ins_names"
    /\ \E rejected \in BOOLEAN :
          dbq' = IF dbq.names = {} /\ rejected
                 THEN DbqFail(OnShard(dbq), "StatementError")
                 ELSE [OnShard(dbq) EXCEPT !.pc = "gc_select"]
    /\ UNCHANGED <<started, pool>> /\ DbqRest

\* line 187-192: the final SELECT of get_courses and its response.
\* line 235-244: the final SELECT of get_courses_student has a CASE without
\* END and names an alias tmp1 that the statement does not define; the store
\* rejects it.
GcSelect ==
    /\ dbq.pc = "gc_select"
    /\ dbq' = IF dbq.route = "courses"
              THEN DbqAnswer(OnShard(dbq), joined_courses(dbq.names))
              ELSE DbqFail(OnShard(dbq), "ProgrammingError")
    /\ UNCHANGED <<started, pool>> /\ DbqRest

(* get_course_students, line 99-116 *)

\* line 108-109: SELECT 1 FROM course WHERE id = :id
GsCourse ==
    /\ dbq.pc = "gs_course"
    /\ dbq' = IF dbq.course_id \in DOMAIN course
              THEN [OnShard(dbq) EXCEPT !.pc = "gs_tmp_sid"]
              ELSE DbqNotFound(OnShard(dbq), "err_course_not_exist")
    /\ UNCHANGED <<started, pool>> /\ DbqRest

\* line 111: CREATE TEMPORARY TABLE tmp_sid on the directory connection
GsTmpSid ==
    /\ dbq.pc = "gs_tmp_sid"
    /\ IF "tmp_sid" \in pool.ms
       THEN /\ dbq' = DbqFail(dbq, "OperationalError")
            /\ UNCHANGED pool
       ELSE /\ pool' = [pool EXCEPT !.ms = @ \cup {"tmp_sid"}]
            /\ dbq' = [dbq EXCEPT !.pc = "gs_learn"]
    /\ UNCHANGED started /\ DbqRest

\* line 112: SELECT DISTINCT sid FROM learn WHERE cid = :cid
GsLearn ==
    /\ dbq.pc = "gs_learn"
    /\ dbq' = [OnShard(dbq) EXCEPT !.pc = "gs_insert",
                                   !.ids = {l[2] : l \in Enrolled(learn, dbq.course_id)}]
    /\ UNCHANGED <<started, pool>> /\ DbqRest

\* line 113: INSERT INTO tmp_sid(sid), as line 184
GsInsert ==
    /\ dbq.pc = "gs_insert"
    /\ \E rejected \in BOOLEAN :
          dbq' = IF dbq.ids = {} /\ rejected THEN DbqFail(dbq, "StatementError")
                 ELSE [dbq EXCEPT !.pc = "gs_join"]
    /\ UNCHANGED <<started, pool>> /\ DbqRest

\* line 114-116: SELECT ... FROM student s JOIN tmp_sid, and the response
GsJoin ==
    /\ dbq.pc = "gs_join"
    /\ dbq' = DbqAnswer(dbq, dbq.ids \cap student)
    /\ UNCHANGED <<started, pool>> /\ DbqRest

(* delete_course, line 311-319, and delete_user for a teacher *)

StartDeleteCourse(p) ==
    \E cid \in ListIds :
        /\ Begin(p, NewReq("delete_course", 0, cid, 0, "dc_delete"), {})
        /\ StoreUnchanged /\ UNCHANGED <<qry, mut, fn, pool, dbq>>

\* line 319: DELETE FROM course WHERE id = :id.  The schema is not part of the
\* source: the teaching and enrollment rows of the course stay, or go with it
\* (a cascading foreign key), or make the statement fail (a restricting one).
DcDelete(p) ==
    LET r == req[p]
        used == (\E t \in teach : t[2] = r.cid) \/ (\E l \in learn : l[1] = r.cid) IN
    /\ r.pc = "dc_delete"
    /\ \E fk \in {"none", "cascade", "restrict"} :
        IF fk = "restrict" /\ used
        THEN /\ req' = Finish(p, r, "IntegrityError")
             /\ UNCHANGED <<course, learn, teach>>
        ELSE /\ req' = Finish(p, r, "ok")
             /\ course' = [c \in DOMAIN course \ {r.cid} |-> course[c]]
             /\ teach' = IF fk = "cascade" THEN {t \in teach : t[2] # r.cid} ELSE teach
             /\ learn' = IF fk = "cascade" THEN {l \in learn : l[1] # r.cid} ELSE learn
    /\ Rest

StartDeleteTeacher(p) ==
    \E uid \in TeacherIds :
        /\ Begin(p, NewReq("delete_user", uid, 0, 0, "du_branch"), {})
        /\ StoreUnchanged /\ UNCHANGED <<qry, mut, fn, pool, dbq>>

\* a second teacher of the directory
OtherTeacher == TeacherFloor + 2

\* campus A's shard with some of the two courses, the floor course taught by
\* the first teacher and the last-slot course by the second, each with one
\* student enrolled or nobody, and fresh pooled connections
ListInit ==
    /\ local = "A"
    /\ \E present \in SUBSET ListIds, enrolled \in SUBSET ListIds :
          /\ enrolled \subseteq present
          /\ course = [id \in present |->
                          [capacity |-> 1,
                           num_selected |-> IF id \in enrolled THEN 1 ELSE 0]]
          /\ teach = {<<IF cid = current_min_cid("A") THEN TeacherFloor
                         ELSE OtherTeacher, cid>> : cid \in present}
          /\ learn = {<<cid, 1100000000>> : cid \in enrolled}
    /\ student = StudentIds
    /\ teacher = TeacherIds \cup {OtherTeacher}
    /\ req = [p \in Procs |-> Idle]
    /\ started = 0
    /\ raced = {}
    /\ qry = QryIdle
    /\ mut = MutIdle
    /\ pool = NoTables
    /\ dbq = DbqIdle
    /\ fn = FnIdle

ListNext ==
    \/ StartDbq
    \/ GcTmpTid \/ GcTmpTidName \/ GcTeach \/ GcInsTid \/ GcNames \/ GcInsNames
    \/ GcSelect
    \/ GsCourse \/ GsTmpSid \/ GsLearn \/ GsInsert \/ GsJoin
    \/ \E p \in Procs :
        \/ StartCreate(p)
        \/ CrTeachers(p) \/ CrMax(p) \/ CrScan(p) \/ CrInsert(p) \/ CrTeach(p)
        \/ StartUpdate(p)
        \/ UpdLock(p) \/ UpdUpdate(p) \/ UpdTeachDelete(p) \/ UpdTeachInsert(p)
        \/ StartDeleteCourse(p) \/ DcDelete(p)
        \/ StartDeleteTeacher(p) \/ DuTeacher(p)

ListSpec == ListInit /\ [][ListNext]_vars

----------------------------------------------------------------------------
(* delete_user over the whole range of user ids, db_router.py:33-56 *)

\* user ids of the range auth.py:41 admits, [10 * RoleWidth, 14 * RoleWidth):
\* the ids at which the quotient by RoleWidth changes, and the last id
RangeIds ==
    {10 * RoleWidth, 11 * RoleWidth - 1, 11 * RoleWidth, 12 * RoleWidth - 1,
     12 * RoleWidth, 13 * RoleWidth, 14 * RoleWidth - 1}

StartDeleteAny(p) ==
    \E uid \in RangeIds :
        /\ Begin(p, NewReq("delete_user", uid, 0, 0, "du_branch"), {})
        /\ StoreUnchanged /\ UNCHANGED <<qry, mut, fn, pool, dbq>>

\* a shard with one course; any of the ids may have a teaching row or (up to
\* the capacity) an enrollment row of it
RangeInit ==
    /\ local = "A"
    /\ \E teaching \in SUBSET RangeIds, enrolled \in SUBSET RangeIds :
          /\ Cardinality(enrolled) <= MaxCap
          /\ Cardinality(teaching) <= 1
          /\ course = [id \in CourseIds |->
                          [capacity |-> MaxCap, num_selected |-> Cardinality(enrolled)]]
          /\ teach = teaching \X CourseIds
          /\ learn = CourseIds \X enrolled
    /\ student = StudentIds
    /\ teacher = TeacherIds
    /\ req = [p \in Procs |-> Idle]
    /\ started = 0
    /\ raced = {}
    /\ qry = QryIdle
    /\ mut = MutIdle
    /\ pool = NoTables
    /\ dbq = DbqIdle
    /\ fn = FnIdle

RangeNext ==
    \E p \in Procs :
        \/ StartDeleteAny(p)
        \/ DuTeacher(p) \/ DuScan(p) \/ DuRead(p) \/ DuWrite(p) \/ DuDelete(p)

RangeSpec == RangeInit /\ [][RangeNext]_vars

----------------------------------------------------------------------------
(* Enrollment counters *)

\* C1: between requests, every course has 0 <= num_selected <= capacity.
C1_CounterWithinCapacity ==
    Quiescent =>
        \A id \in DOMAIN course :
            /\ 0 <= course[id].num_selected
            /\ course[id].num_selected <= course[id].capacity

\* C2: between requests, every course's num_selected is the number of
\* enrollment rows that reference the course.
C2_CounterEqualsRows ==
    Quiescent =>
        \A id \in DOMAIN course :
            course[id].num_selected = Cardinality(Enrolled(learn, id))

\* C3: of two select requests that race for the one seat of a course with
\* capacity 1 and num_selected 0, exactly one succeeds and the other fails
\* with the capacity conflict.
C3_OneWinner ==
    \A pr \in raced :
        (\A p \in pr : ~InFlight(p)) =>
            \E p, q \in pr :
                /\ p # q
                /\ req[p].result = "ok"
                /\ req[q].result = "err_course_cap_conflict"

\* C4: a select request whose read of the course finds num_selected >=
\* capacity ends there with the capacity conflict, and it has written neither
\* the counter nor an enrollment row.
C4_FullCourseRejected ==
    [][\A p \in Procs :
          (/\ req[p].op = "select" /\ req[p].pc = "sel_lock" /\ req'[p] # req[p]
           /\ req[p].cid \in DOMAIN course
           /\ course[req[p].cid].num_selected >= course[req[p].cid].capacity)
          => /\ req'[p].pc = "done"
             /\ req'[p].result = "err_course_cap_conflict"
             /\ course' = course
             /\ learn' = learn]_vars

\* a select request was turned away from a full course
C4_Witness ==
    \E p \in Procs :
        /\ req[p].op = "select" /\ req[p].result = "err_course_cap_conflict"
        /\ course[req[p].cid].num_selected >= course[req[p].cid].capacity

\* C5: every enrollment row a pass of the cascade removes is matched by that
\* pass's decrement of the row's course.
C5_RemovedRowsDecremented ==
    \A p \in Procs :
        (req[p].op = "delete_user" /\ req[p].uid < TeacherFloor)
            => req[p].gone \subseteq req[p].decd

\* C6: the cascade returns exactly on a pass whose DELETE removed no row, no
\* enrollment row references the student when it returns, and it does return.
C6_CascadeStops ==
    /\ [][\A p \in Procs :
            (req[p].pc = "du_delete" /\ req'[p] # req[p]) =>
                LET rows == {l \in learn : l[2] = req[p].uid} IN
                /\ (req'[p].pc = "done") <=> (rows = {})
                /\ (req'[p].pc = "done") => ({l \in learn' : l[2] = req[p].uid} = {})]_vars
    /\ \A p \in Procs :
            (req[p].op = "delete_user" /\ InFlight(p)) ~> ~InFlight(p)

\* the cascade has returned, having removed the row a select request for the
\* same student inserted
C6_Witness ==
    \E p, q \in Procs :
        /\ req[p].op = "delete_user" /\ req[p].uid < TeacherFloor /\ req[p].pc = "done"
        /\ req[q].op = "select" /\ req[q].uid = req[p].uid /\ req[q].result = "ok"
        /\ {l \in learn : l[2] = req[p].uid} = {}

----------------------------------------------------------------------------
(* Course-id allocator *)

\* the lowest id of the local band that no course has
LowestUnused == MinOf(Band(local) \ DOMAIN course)

\* an id of the local band below the largest course id is unused
GapBelowMax ==
    /\ DOMAIN course # {}
    /\ \E id \in Band(local) : id \notin DOMAIN course /\ id < MaxOf(DOMAIN course)

\* the request in slot p gets its new id in this step
Allocates(p) ==
    /\ req[p].op = "create"
    /\ req[p].pc \in {"cr_max", "cr_scan"}
    /\ req'[p].pc = "cr_insert"

\* C7 as stated: whenever an id below the maximum is unused, the allocator
\* returns the lowest unused id of the band.
C7_LowestGapAlways ==
    [][\A p \in Procs :
          (Allocates(p) /\ GapBelowMax) => req'[p].cid = LowestUnused]_vars

\* C7 as amended: with an id below the maximum unused, the allocator returns
\* the lowest unused id of the band when the maximum is at the band's last
\* slot, and the maximum plus one otherwise.
C7_GapOnlyAtLastSlot ==
    [][\A p \in Procs :
          /\ (Allocates(p) /\ GapBelowMax) =>
                req'[p].cid =
                    IF MaxOf(DOMAIN course) % BandWidth = BandWidth - 1
                    THEN LowestUnused
                    ELSE MaxOf(DOMAIN course) + 1
          /\ (req[p].pc = "cr_scan" /\ req'[p] # req[p] /\ GapBelowMax)
                => req'[p].pc = "cr_insert"]_vars

\* the spec's example, on the band's scale: with the ids floor, floor+1 and
\* floor+3 present the allocator has handed out floor+4
C7_Witness ==
    \E p \in Procs :
        /\ req[p].op = "create" /\ req[p].pc = "cr_insert"
        /\ DOMAIN course = {current_min_cid(local), current_min_cid(local) + 1,
                            current_min_cid(local) + 3}
        /\ req[p].cid = current_min_cid(local) + 4

\* C8: on a shard whose courses fill the whole band the allocator returns no
\* id, create_course ends with the id-space-exhausted conflict, and neither a
\* course row nor a teaching row is inserted.
C8_FullBandExhausted ==
    [][\A p \in Procs :
          (/\ req[p].op = "create" /\ req[p].pc \in {"cr_max", "cr_scan"}
           /\ req'[p] # req[p]
           /\ DOMAIN course = Band(local))
          => /\ req[p].pc = "cr_max" => req'[p].pc = "cr_scan"
             /\ req[p].pc = "cr_scan" =>
                    req'[p].pc = "done" /\ req'[p].result = "err_course_id_full"
             /\ course' = course
             /\ teach' = teach]_vars

\* a create request was turned away from a full band
C8_Witness ==
    \E p \in Procs :
        /\ req[p].op = "create" /\ req[p].result = "err_course_id_full"
        /\ DOMAIN course = Band(local)

----------------------------------------------------------------------------
(* Federated list-courses *)

AnsweredRows ==
    qry.local_rows \cup
        UNION {qry.got[c].rows : c \in {d \in DOMAIN qry.got : is_success(qry.got[d].code)}}

\* C10: a federated request in which a peer's call ended without status or
\* with a non-2xx status still succeeds, with exactly the rows of the campuses
\* that answered successfully and total their number.
C10_FailedPeerContributesNothing ==
    (/\ qry.pc = "done" /\ qry.course = 0
     /\ \E c \in DOMAIN qry.got : ~is_success(qry.got[c].code))
    => /\ qry.resp.status = 200
       /\ qry.resp.result = AnsweredRows
       /\ qry.resp.total = Cardinality(AnsweredRows)

----------------------------------------------------------------------------
(* Capacity updates and the course-row lock *)

\* C11: update_course whose new capacity is below the num_selected it reads
\* ends with the capacity conflict and changes neither the course nor its
\* teaching rows, and the capacity an accepted update writes is not below the
\* course's num_selected, whatever select_course does meanwhile.
C11_UpdateKeepsCapacity ==
    [][\A p \in Procs :
          /\ (/\ req[p].pc = "upd_lock" /\ req'[p] # req[p]
              /\ req[p].cid \in DOMAIN course
              /\ req[p].cap < course[req[p].cid].num_selected)
             => /\ req'[p].result = "err_course_cap_conflict"
                /\ course' = course /\ teach' = teach
          /\ (/\ req[p].pc = "upd_update" /\ req'[p] # req[p]
              /\ req[p].cid \in DOMAIN course)
             => course'[req[p].cid].capacity >= course'[req[p].cid].num_selected]_vars

\* the request in slot p has read the row of course id and not yet written it
Holding(p, id) ==
    /\ req[p].pc \in {"sel_update", "des_update", "upd_update", "du_write"}
    /\ req[p].cid = id

\* C19: no two capacity-affecting requests are between their read and their
\* write of the same course row at once, and the row a request is about to
\* write is still the row it read.
C19_ExclusiveRowLock ==
    \A p \in Procs : \A id \in DOMAIN course :
        Holding(p, id) =>
            /\ \A q \in Procs \ {p} : ~Holding(q, id)
            /\ course[id].num_selected = req[p].row.num_selected

\* C20: once a select request that ran alone on the shard has ended, either
\* its increment and its enrollment row are both there (and it succeeded) or
\* neither is: every counter still equals the course's enrollment rows.
C20_BothWritesOrNeither ==
    (/\ started = 1 /\ req[1].op = "select" /\ req[1].pc = "done")
    => /\ \A id \in DOMAIN course :
              course[id].num_selected = Cardinality(Enrolled(learn, id))
       /\ req[1].result = "ok" => <<req[1].cid, req[1].uid>> \in learn

----------------------------------------------------------------------------
(* Course creation *)

\* C18: create_course naming a teacher id that the directory does not have
\* ends at its teacher test with teacher-not-found, and the request inserts
\* neither a course row nor a teaching row.
C18_UnknownTeacherRejected ==
    [][\A p \in Procs :
          (/\ req[p].op = "create" /\ InFlight(p) /\ req'[p] # req[p]
           /\ ~(req[p].tids \subseteq teacher))
          => /\ req[p].pc = "cr_teachers"
             /\ req'[p].pc = "done"
             /\ req'[p].result = "err_teacher_not_exist"
             /\ course' = course
             /\ teach' = teach]_vars

\* a create request naming an unknown teacher was turned away
C18_Witness ==
    \E p \in Procs :
        /\ req[p].op = "create" /\ req[p].result = "err_teacher_not_exist"
        /\ UnknownTeacher \in req[p].tids

----------------------------------------------------------------------------
(* remote_call and the Identity Classifier *)

\* the request was not answered with a status and a body that parses
TransportFailure == fn.net.fail \/ ~fn.net.parses

\* C16 as stated: for every method and body remote_call returns without
\* raising, (None, None) exactly on a transport-level failure and the
\* answer's (status, body) otherwise.
C16_NeverRaises ==
    (fn.name = "remote_call" /\ fn.done)
    => /\ fn.out.raised = None
       /\ (fn.out.code = 0) <=> TransportFailure
       /\ ~TransportFailure => fn.out.code = fn.net.status /\ fn.out.resp = fn.net.body

\* C16 as amended: for GET, POST, PUT, DELETE and PATCH remote_call returns
\* without raising, (None, None) exactly when the request could not be built
\* or sent or its answer not parsed, and the answer's (status, body)
\* otherwise; for any other method it raises NotImplementedError.
C16_NeverRaisesForItsMethods ==
    (fn.name = "remote_call" /\ fn.done)
    => IF fn.method \in {"GET", "POST", "PUT", "DELETE", "PATCH"}
       THEN /\ fn.out.raised = None
            /\ (fn.out.code = 0) <=> (TransportFailure \/ fn.json = "model")
            /\ fn.out.code # 0 =>
                    fn.out.code = fn.net.status /\ fn.out.resp = fn.net.body
       ELSE fn.out.raised = "NotImplementedError"

\* a POST that failed at transport level has returned (None, None)
C16_Witness ==
    /\ fn.name = "remote_call" /\ fn.done
    /\ fn.method = "POST" /\ fn.net.fail
    /\ fn.out = NoCall

\* C17: the classifier gives campus X for every id from the floor of X's band
\* to its last slot, the floors being those of current_min_cid.
C17_ClassifierMatchesFloors ==
    (fn.name = "get_course_campus" /\ fn.done)
    => \A X \in Campuses : \A k \in 0 .. (BandWidth - 1) :
            fn.course_id = current_min_cid(X) + k => fn.campus = X

\* the classifier has been applied to the last slot of campus B's band
C17_Witness ==
    /\ fn.name = "get_course_campus" /\ fn.done
    /\ fn.course_id = current_min_cid("B") + BandWidth - 1
    /\ fn.campus = "B"

----------------------------------------------------------------------------
(* Caller-facing select and deselect, and the delegated mutations *)

\* a select or deselect request has been answered
EnrollAnswered == mut.pc = "done" /\ mut.op \in {"select", "deselect"}

\* the caller may select or deselect: a student for themselves, or an admin
\* for the student of stu_id
MayEnroll ==
    \/ mut.stu_id = 0 /\ mut.role = "student"
    \/ mut.stu_id # 0 /\ mut.role = "admin"

\* the request has neither run a statement nor made a delegate call
Untouched == ~mut.dir_used /\ ~mut.shard_used /\ mut.calls = <<>>

\* C12: a student's select or deselect outside every selection window is
\* answered 403 selection-window-closed without a statement on the shard and
\* without a delegate call, and an admin's request on behalf of a student is
\* never answered selection-window-closed.
C12_WindowClosedRejected ==
    EnrollAnswered =>
        /\ (mut.role = "student" /\ mut.stu_id = 0 /\ ~mut.window)
            => /\ mut.status = 403 /\ mut.body = "err_selection_time"
               /\ ~mut.shard_used /\ mut.calls = <<>>
        /\ (mut.role = "admin" /\ mut.stu_id # 0) => mut.body # "err_selection_time"

\* C13: a select or deselect request of any other caller than a student
\* without stu_id or an admin with stu_id is answered 403 no-permission, having
\* run no statement and made no delegate call.
C13_OnlySelfOrAdmin ==
    (EnrollAnswered /\ ~MayEnroll)
    => /\ mut.status = 403 /\ mut.body = "err_no_permission"
       /\ Untouched

\* C14: a select or deselect that is allowed and whose course another campus
\* owns runs no statement on the local shard and makes exactly one delegate
\* call, to the owning campus and with the student's id.
C14_RemoteCourseDelegated ==
    (/\ EnrollAnswered /\ MayEnroll /\ (mut.role = "student" => mut.window)
     /\ get_course_campus(mut.course_id) # local)
    => /\ ~mut.shard_used
       /\ Len(mut.calls) = 1
       /\ mut.calls[1].campus = get_course_campus(mut.course_id)
       /\ mut.calls[1].stu_id # 0

\* the answered request is a mutation its caller may make on a course that
\* another campus owns
DelegatedMutation ==
    /\ mut.pc = "done"
    /\ \/ mut.op = "create" /\ mut.role = "admin" /\ mut.campus # local
       \/ /\ mut.op \in {"delete", "update"} /\ mut.role = "admin"
          /\ get_course_campus(mut.course_id) # local
       \/ /\ mut.op \in {"select", "deselect"} /\ MayEnroll
          /\ mut.role = "student" => mut.window
          /\ get_course_campus(mut.course_id) # local

\* C15: a delegated mutation makes at most one delegate call, answers 502
\* bad-gateway when no call ended with a status, and otherwise answers with
\* the status and the body the call ended with.
C15_DelegateOutcomeSurfaced ==
    DelegatedMutation =>
        /\ Len(mut.calls) <= 1
        /\ IF mut.out.code = 0
           THEN mut.status = 502 /\ mut.body = "err_bad_gateway"
           ELSE mut.status = mut.out.code /\ mut.body = mut.out.resp

----------------------------------------------------------------------------
(* Deselecting without an enrollment row *)

\* C21: a deselect request that runs alone, for an existing student and an
\* existing course in which the student has no enrollment row, changes
\* neither the course's num_selected nor the enrollment rows.
C21_DeselectWithoutRowNoChange ==
    [][\A p \in Procs :
          (/\ started = 1
           /\ req[p].op = "deselect" /\ req'[p] # req[p]
           /\ req[p].pc \in {"des_update", "des_delete"}
           /\ <<req[p].cid, req[p].uid>> \notin learn)
          => course' = course /\ learn' = learn]_vars

----------------------------------------------------------------------------
(* What the allocator returns *)

\* C22: gen_course_id returns the band floor on a shard without courses and
\* the maximum plus one whenever the maximum is not at the band's last slot,
\* whether or not lower ids are unused; only with the maximum at the last slot
\* does it scan, and the scan returns the floor when the smallest id is not
\* the floor and the first gap otherwise.
C22_MaxPlusOneUnlessLastSlot ==
    [][\A p \in Procs :
          (/\ req[p].op = "create" /\ req[p].pc \in {"cr_max", "cr_scan"}
           /\ req'[p] # req[p])
          => LET ids == DOMAIN course
                 floor == current_min_cid(local) IN
             /\ req[p].pc = "cr_max" =>
                   IF ids = {}
                   THEN req'[p].pc = "cr_insert" /\ req'[p].cid = floor
                   ELSE IF MaxOf(ids) % BandWidth < BandWidth - 1
                        THEN req'[p].pc = "cr_insert" /\ req'[p].cid = MaxOf(ids) + 1
                   ELSE req'[p].pc = "cr_scan"
             /\ (req[p].pc = "cr_scan" /\ ids # {} /\ MinOf(ids) # floor)
                   => req'[p].pc = "cr_insert" /\ req'[p].cid = floor
             /\ (req[p].pc = "cr_scan" /\ ids # {} /\ MinOf(ids) = floor
                    /\ Band(local) \ ids # {})
                   => req'[p].pc = "cr_insert" /\ req'[p].cid = LowestUnused]_vars

\* with the last slot of the band taken and its floor free, the allocator has
\* handed out the floor
C22_Witness ==
    \E p \in Procs :
        /\ req[p].op = "create" /\ req[p].pc = "cr_insert"
        /\ DOMAIN course = {current_min_cid(local) + 1,
                            current_min_cid(local) + BandWidth - 1}
        /\ req[p].cid = current_min_cid(local)

\* C23: on a shard whose course ids all lie in the local band, an id the
\* allocator returns lies in that band, is no existing course's id, and is
\* classified as the local campus.
C23_AllocatedIdInLocalBand ==
    [][\A p \in Procs :
          (Allocates(p) /\ DOMAIN course \subseteq Band(local))
          => /\ req'[p].cid \in Band(local)
             /\ req'[p].cid \notin DOMAIN course
             /\ get_course_campus(req'[p].cid) = local]_vars

\* on campus C, with the floor, the slot after it and the last slot taken, the
\* allocator has handed out the first gap
C23_Witness ==
    \E p \in Procs :
        /\ local = "C"
        /\ req[p].op = "create" /\ req[p].pc = "cr_insert"
        /\ DOMAIN course = {current_min_cid("C"), current_min_cid("C") + 1,
                            current_min_cid("C") + BandWidth - 1}
        /\ req[p].cid = current_min_cid("C") + 2

----------------------------------------------------------------------------
(* Two create requests given the same id *)

\* the create request in slot q has inserted the course row with its new id
InsertedCourse(q) ==
    /\ req[q].op = "create"
    /\ req[q].pc = "cr_teach" \/ (req[q].pc = "done" /\ req[q].result = "created")

\* C24: of two concurrent create requests that the allocator gave the same
\* id, the one whose INSERT comes second ends there with id-conflict (409),
\* writes neither a course row nor a teaching row, and the course row of that
\* id stays the winner's.
C24_SameIdLoserConflicts ==
    [][\A p \in Procs :
          (/\ req[p].op = "create" /\ req[p].pc = "cr_insert" /\ req'[p] # req[p]
           /\ \E q \in Procs \ {p} : InsertedCourse(q) /\ req[q].cid = req[p].cid)
          => /\ req'[p].pc = "done"
             /\ req'[p].result = "err_course_id_conflict"
             /\ create_status(req'[p].result) = 409
             /\ course' = course
             /\ teach' = teach]_vars

\* two create requests were given the same id; one created the course with
\* its teaching rows, the other ended with id-conflict
C24_Witness ==
    \E p, q \in Procs :
        /\ p # q /\ req[p].cid = req[q].cid
        /\ req[p].op = "create" /\ req[p].result = "created"
        /\ req[q].op = "create" /\ req[q].result = "err_course_id_conflict"
        /\ {t \in teach : t[2] = req[p].cid} = {<<tid, req[p].cid>> : tid \in req[p].tids}

----------------------------------------------------------------------------
(* Which campuses a list-courses request consults *)

C26_FanOutMergesAll ==
    (qry.pc = "done" /\ qry.course = 0)
    => /\ qry.shard_used <=> local \in qry.campus
       /\ qry.calls = [c \in Campuses |-> IF c \in qry.campus \ {local} THEN 1 ELSE 0]
       /\ ~qry.local_task /\ qry.remote = {}
       /\ DOMAIN qry.got = qry.campus \ {local}
       /\ qry.resp.status = 200
       /\ qry.resp.result = AnsweredRows
       /\ qry.resp.total = Cardinality(qry.resp.result)

----------------------------------------------------------------------------
(* The shard-level course queries *)

\* C27: a local course query with a textual teacher filter that no directory
\* teacher matches returns the empty result, total 0, and executes no
\* statement on the shard connection.
C27_NoTeacherMatchShortCircuit ==
    (/\ dbq.pc = "done" /\ dbq.route \in {"courses", "courses_student"}
     /\ dbq.teacher = "name_unknown" /\ dbq.fresh)
    => /\ dbq.status = 200 /\ dbq.total = 0 /\ dbq.result = {}
       /\ dbq.shard_stmts = 0

\* C28: whenever the pooled connections are handed to a request, none of the
\* staging tables of an earlier course query or course-students query exists
\* on them, so every such request can create its own.
C28_NoStagingTableSurvives ==
    /\ dbq.pc \in {"idle", "done"} => pool = NoTables
    /\ dbq.error # "OperationalError"

\* C30: an unconstrained local list-courses query answers with exactly one row
\* for every course the shard holds when the rows are read, whatever create,
\* update, delete_course and delete_user (teacher) requests came before,
\* courses without a teacher included.  (Stated for a request on fresh
\* connections whose INSERTs into the staging tables had rows to insert.)
C30_EveryStoredCourseListed ==
    [][(/\ dbq.route = "courses" /\ unconstrained(dbq) /\ dbq.fresh
        /\ dbq.pc # "done" /\ dbq'.pc = "done"
        /\ dbq'.error # "StatementError" /\ dbq.names # {})
       => /\ dbq'.status = 200
          /\ dbq'.result = DOMAIN course
          /\ dbq'.total = Cardinality(DOMAIN course)]_vars

----------------------------------------------------------------------------
(* delete_user and the Identity Classifier *)

\* C29: for every user id of the valid range, delete_user takes its teacher
\* branch (the teacher's teaching rows are deleted, no counter and no
\* enrollment row changes, and the request is over) exactly when the Identity
\* Classifier gives the role teacher, and starts its enrollment cascade for
\* every other id.
C29_TeacherBranchMatchesRole ==
    [][\A p \in Procs :
          (/\ req[p].op = "delete_user" /\ req[p].pc = "du_branch"
           /\ req'[p] # req[p]
           /\ 10 * RoleWidth <= req[p].uid /\ req[p].uid < 14 * RoleWidth)
          => IF get_user_role(req[p].uid) = "teacher"
             THEN /\ req'[p].pc = "done"
                  /\ teach' = {t \in teach : t[1] # req[p].uid}
                  /\ course' = course /\ learn' = learn
             ELSE /\ req'[p].pc \in {"du_read", "du_delete"}
                  /\ teach' = teach]_vars

\* the last id of the range has taken the teacher branch and lost its teaching
\* row, and the cascade for the last admin id has decremented the course of
\* its enrollment row
C29_Witness ==
    \E p, q \in Procs :
        /\ req[p].op = "delete_user" /\ req[p].uid = 14 * RoleWidth - 1
        /\ req[p].pc = "done" /\ req[p].result = "ok"
        /\ req[q].op = "delete_user" /\ req[q].uid = 11 * RoleWidth - 1
        /\ req[q].pc = "du_delete" /\ req[q].decd # {}
        /\ teach = {}

====
